---- MODULE Spec2Model ----
(***************************************************************************)
(* Model of WarehouseManager (src/warehouse_manager.py): the session state *)
(* of the manager object, the SQLite database behind it, and one action    *)
(* per public method.                                                      *)
(*                                                                         *)
(* Text is a sequence of one-character strings ("A B" is <<"A"," ","B">>)  *)
(* so that str.replace, int() and f-string formatting are computed.        *)
(* An optional value is <<>> (None) or <<v>>.                              *)
(***************************************************************************)
EXTENDS Integers, Sequences, FiniteSets, TLC

VARIABLES
    opened,             \* the WarehouseManager object exists (__init__ returned)
    db,                 \* the SQLite database file
    current_warehouse,  \* self.current_warehouse
    warehouses,         \* self.warehouses
    error_message,      \* self.error_message
    edit_item_data,     \* self.edit_item_data
    call,               \* the last method call: its name and arguments
    outcome,            \* how it ended: "ok", "error" (error_message set), "raised"
    failed,             \* some SQL statement of the last call printed an sqlite3.Error
    ret,                \* the value the last call returned
    ncalls              \* number of calls made so far

vars == <<opened, db, current_warehouse, warehouses, error_message,
          edit_item_data, call, outcome, failed, ret, ncalls>>

----------------------------------------------------------------------------
(* Bounds *)

MaxCalls == 6   \* calls made on the manager in one run (construction included)
MaxId == 2      \* largest item id AUTOINCREMENT hands out, and largest id typed
MaxQty == 1     \* quantities stay within -MaxQty..MaxQty

----------------------------------------------------------------------------
(* Python values *)

None == <<>>
Some(v) == <<v>>
Val(o) == o[1]

Range(s) == {s[i] : i \in 1..Len(s)}

Digits == <<"0", "1", "2", "3", "4", "5", "6", "7", "8", "9">>
IsDigit(c) == \E i \in 1..10 : Digits[i] = c
DigitVal(c) == (CHOOSE i \in 1..10 : Digits[i] = c) - 1

RECURSIVE NatOf(_)
NatOf(s) == IF s = <<>> THEN 0
            ELSE 10 * NatOf(SubSeq(s, 1, Len(s) - 1)) + DigitVal(s[Len(s)])

\* int(s) succeeds: an optional sign followed by at least one digit
IsInt(s) ==
    LET body == IF s # <<>> /\ s[1] \in {"-", "+"} THEN Tail(s) ELSE s
    IN  body # <<>> /\ \A i \in 1..Len(body) : IsDigit(body[i])

\* int(s)
int(s) ==
    IF s[1] = "-" THEN 0 - NatOf(Tail(s))
    ELSE IF s[1] = "+" THEN NatOf(Tail(s))
    ELSE NatOf(s)

\* f"{n}" for an integer n
RECURSIVE NatStr(_)
NatStr(n) == IF n < 10 THEN <<Digits[n + 1]>>
             ELSE NatStr(n \div 10) \o <<Digits[(n % 10) + 1]>>

Str(n) == IF n < 0 THEN <<"-">> \o NatStr(0 - n) ELSE NatStr(n)

\* mutant: the name is used as typed
replace_skipped(s) == s

\* warehouse_name.replace(" ", "_")
replace(s) == [i \in 1..Len(s) |-> IF s[i] = " " THEN "_" ELSE s[i]]

\* f"{self.current_warehouse}": None is formatted as the text None
TableText(w) == IF w = None THEN <<"N", "o", "n", "e">> ELSE Val(w)

----------------------------------------------------------------------------
(* Inputs *)

WarehouseNames == { <<"A">>, <<"A", " ", "B">>, <<"A", "_", "B">>, <<"x", "-", "y">>,
                    <<"N", "o", "n", "e">> }

ItemInputs == { [name |-> "Bolt", other |-> "steel"], [name |-> "Nut", other |-> ""] }

NotAnInt == <<"a", "b", "c">>
IdStrs == {Str(i) : i \in 1..MaxId} \cup {NotAnInt}
QtyStrs == {Str(MaxQty), NotAnInt}
DeltaStrs == {Str(1), Str(-1), NotAnInt}
EditQtyStrs == {Str(0), NotAnInt}
EditInputs ==
    [name : {"Nut"}, other : {""}, id : IdStrs, quantity : EditQtyStrs,
     old_id : IdStrs]

----------------------------------------------------------------------------
(* The SQLite database.                                                    *)
(*   db.tables       names in sqlite_master (type='table') in rowid order, *)
(*                   sqlite_sequence left out                              *)
(*   db.bookkeeping  the sqlite_sequence table exists                      *)
(*   db.rows         table name -> set of rows                             *)
(*   db.autoinc      the rows of sqlite_sequence: table name -> largest id *)
(*                   ever inserted                                         *)
(* Every statement returns [ok, db] (and "result" for a read); a statement *)
(* that fails leaves the database as it was.                               *)
(***************************************************************************)

Letters == {"A", "B", "N", "o", "n", "e", "x", "y", "_"}

\* the text is one SQL identifier token (letters and underscores here)
IsIdentifier(t) == t # <<>> /\ \A i \in 1..Len(t) : t[i] \in Letters

TableExists(d, t) == IsIdentifier(t) /\ t \in DOMAIN d.rows

Ids(R) == {r.id : r \in R}

Max(S) == CHOOSE m \in S : \A x \in S : x <= m

RECURSIVE SortById(_)
SortById(R) ==
    IF R = {} THEN <<>>
    ELSE LET r == CHOOSE x \in R : \A y \in R : x.id <= y.id
         IN  <<r>> \o SortById(R \ {r})

Fail(d) == [ok |-> FALSE, db |-> d]
Done(d) == [ok |-> TRUE, db |-> d]

\* CREATE TABLE t (name TEXT, id INTEGER PRIMARY KEY AUTOINCREMENT,
\*                 quantity INTEGER, other TEXT)
CreateTable(d, t) ==
    IF ~IsIdentifier(t) \/ t \in DOMAIN d.rows THEN Fail(d)
    ELSE Done([d EXCEPT !.tables = Append(@, t),
                        !.bookkeeping = TRUE,
                        !.rows = [x \in DOMAIN d.rows \cup {t} |->
                                     IF x = t THEN {} ELSE d.rows[x]]])

\* the new sqlite_sequence rows after ids J were inserted into t
Bump(d, t, J) ==
    IF J = {} THEN d.autoinc
    ELSE [x \in DOMAIN d.autoinc \cup {t} |->
            IF x = t
            THEN Max(J \cup (IF t \in DOMAIN d.autoinc THEN {d.autoinc[t]} ELSE {}))
            ELSE d.autoinc[x]]

\* INSERT INTO t SELECT * FROM src
InsertSelect(d, t, src) ==
    IF ~TableExists(d, t) \/ ~TableExists(d, src) THEN Fail(d)
    ELSE IF Ids(d.rows[t]) \cap Ids(d.rows[src]) # {} THEN Fail(d)
    ELSE Done([d EXCEPT !.rows[t] = @ \cup d.rows[src],
                        !.autoinc = Bump(d, t, Ids(d.rows[src]))])

\* mutant: the copied quantities are kept
UpdateZero_skipped(d, t) ==
    IF ~TableExists(d, t) THEN Fail(d) ELSE Done(d)

\* UPDATE t SET quantity = 0
UpdateZero(d, t) ==
    IF ~TableExists(d, t) THEN Fail(d)
    ELSE Done([d EXCEPT !.rows[t] = {[r EXCEPT !.quantity = 0] : r \in @}])

\* mutant: the last name is dropped, whatever x is
Remove_last(s, x) == SubSeq(s, 1, Len(s) - 1)

\* list.remove(x) for x in the list: drops the first occurrence
Remove(s, x) ==
    LET k == CHOOSE i \in 1..Len(s) : s[i] = x /\ \A j \in 1..(i - 1) : s[j] # x
    IN  SubSeq(s, 1, k - 1) \o SubSeq(s, k + 1, Len(s))

\* DROP TABLE t
DropTable(d, t) ==
    IF ~TableExists(d, t) THEN Fail(d)
    ELSE Done([d EXCEPT !.tables = Remove(@, t),
                        !.rows = [x \in DOMAIN d.rows \ {t} |-> d.rows[x]],
                        !.autoinc = [x \in DOMAIN d.autoinc \ {t} |-> d.autoinc[x]]])

\* SELECT * FROM t
SelectAll(d, t) ==
    IF ~TableExists(d, t) THEN [ok |-> FALSE, result |-> None]
    ELSE [ok |-> TRUE, result |-> Some(SortById(d.rows[t]))]

\* mutant: ids are handed out by counting the rows
NextId_by_count(d, t) == Cardinality(d.rows[t]) + 1

\* the id AUTOINCREMENT gives the next row of t
NextId(d, t) ==
    Max({0} \cup Ids(d.rows[t])
            \cup (IF t \in DOMAIN d.autoinc THEN {d.autoinc[t]} ELSE {})) + 1

\* INSERT INTO t (name, quantity, other) VALUES ('name', quantity, 'other')
InsertItem(d, t, name, quantity, other) ==
    IF ~TableExists(d, t) THEN Fail(d)
    ELSE LET row == [name |-> name, id |-> NextId(d, t),
                     quantity |-> quantity, other |-> other]
         IN  Done([d EXCEPT !.rows[t] = @ \cup {row},
                            !.autoinc = Bump(d, t, {row.id})])

\* SELECT count(*) FROM t WHERE id = <text>
\* (a text that is not a number is read as a column name, which does not exist)
SelectCount(d, t, text) ==
    IF ~TableExists(d, t) \/ ~IsInt(text) THEN [ok |-> FALSE, result |-> None]
    ELSE [ok |-> TRUE,
          result |-> Some(Cardinality({r \in d.rows[t] : r.id = int(text)}))]

\* SELECT * FROM t WHERE id = <text>
SelectWhere(d, t, text) ==
    IF ~TableExists(d, t) \/ ~IsInt(text) THEN [ok |-> FALSE, result |-> None]
    ELSE [ok |-> TRUE,
          result |-> Some(SortById({r \in d.rows[t] : r.id = int(text)}))]

\* UPDATE t SET quantity = quantity+<delta> WHERE id = <id>
UpdateQuantity(d, t, id, delta) ==
    IF ~TableExists(d, t) THEN Fail(d)
    ELSE Done([d EXCEPT !.rows[t] =
                 {IF r.id = id THEN [r EXCEPT !.quantity = @ + delta] ELSE r : r \in @}])

\* UPDATE t SET name = .., id = .., quantity = .., other = .. WHERE id = <old_id>
\* (id is the PRIMARY KEY: the statement fails if it would give two rows one id)
UpdateItem(d, t, name, id, quantity, other, old_id) ==
    IF ~TableExists(d, t) THEN Fail(d)
    ELSE LET new == {IF r.id = old_id
                     THEN [name |-> name, id |-> id,
                           quantity |-> quantity, other |-> other]
                     ELSE r : r \in d.rows[t]}
         IN  IF Cardinality(Ids(new)) # Cardinality(d.rows[t]) THEN Fail(d)
             ELSE Done([d EXCEPT !.rows[t] = new])

\* DELETE FROM t WHERE id = <text>
DeleteWhere(d, t, text) ==
    IF ~TableExists(d, t) \/ ~IsInt(text) THEN Fail(d)
    ELSE Done([d EXCEPT !.rows[t] = {r \in @ : r.id # int(text)}])

----------------------------------------------------------------------------
(* Initial states: the database file before the process starts *)

SeedRow == [name |-> "Bolt", id |-> 1, quantity |-> MaxQty, other |-> "steel"]

NewFile == [tables |-> <<>>, bookkeeping |-> FALSE,
            rows |-> <<>>, autoinc |-> <<>>]

InitialFiles ==
    { NewFile,
      [NewFile EXCEPT !.bookkeeping = TRUE],
      [tables |-> << <<"A">> >>, bookkeeping |-> TRUE,
       rows |-> [x \in {<<"A">>} |-> {SeedRow}],
       autoinc |-> [x \in {<<"A">>} |-> 1]] }

NoCall == [name |-> "none"]

Init ==
    /\ opened = FALSE
    /\ db \in InitialFiles
    /\ current_warehouse = None
    /\ warehouses = <<>>
    /\ error_message = None
    /\ edit_item_data = None
    /\ call = NoCall
    /\ outcome = "ok"
    /\ failed = FALSE
    /\ ret = None
    /\ ncalls = 0

\* one more call is made
Tick == ncalls < MaxCalls /\ ncalls' = ncalls + 1

----------------------------------------------------------------------------
(* WarehouseManager.__init__ *)

Open ==
    /\ ~opened
    /\ Tick
    /\ call' = [name |-> "open"]
    /\ ret' = None
    /\ failed' = FALSE
    /\ UNCHANGED <<db, current_warehouse, error_message, edit_item_data>>
    /\ IF db.bookkeeping
       THEN \* self.warehouses.remove("sqlite_sequence")
            /\ opened' = TRUE
            /\ warehouses' = db.tables
            /\ outcome' = "ok"
       ELSE \* list.remove raises ValueError: no object is constructed
            /\ outcome' = "raised"
            /\ UNCHANGED <<opened, warehouses>>

(* WarehouseManager.__get_items *)
get_items(d, cw) ==
    IF cw = None THEN None ELSE SelectAll(d, TableText(cw)).result

\* mutant: edit_item_data is not reset
get_warehouse_data_keeps_edit ==
    /\ opened
    /\ Tick
    /\ call' = [name |-> "get_snapshot"]
    /\ ret' = Some([current_warehouse |-> current_warehouse,
                    warehouses |-> warehouses,
                    items |-> get_items(db, current_warehouse),
                    edit_item_data |-> edit_item_data,
                    error_message |-> error_message])
    /\ error_message' = None
    /\ outcome' = "ok"
    /\ failed' = (current_warehouse # None
                  /\ ~SelectAll(db, TableText(current_warehouse)).ok)
    /\ UNCHANGED <<opened, db, current_warehouse, warehouses, edit_item_data>>

(* WarehouseManager.get_warehouse_data *)
get_warehouse_data ==
    /\ opened
    /\ Tick
    /\ call' = [name |-> "get_snapshot"]
    /\ ret' = Some([current_warehouse |-> current_warehouse,
                    warehouses |-> warehouses,
                    items |-> get_items(db, current_warehouse),
                    edit_item_data |-> edit_item_data,
                    error_message |-> error_message])
    /\ edit_item_data' = None
    /\ error_message' = None
    /\ outcome' = "ok"
    /\ failed' = (current_warehouse # None
                  /\ ~SelectAll(db, TableText(current_warehouse)).ok)
    /\ UNCHANGED <<opened, db, current_warehouse, warehouses>>

----------------------------------------------------------------------------
(* Warehouse methods *)

NameNotUnique == <<"Warehouse Name must be unique">>

\* the three statements of add_warehouse, each one swallowing its own failure
AddWarehouseQueries(d, name, copy, cw) ==
    LET s1 == CreateTable(d, name)
        s2 == IF copy /\ cw # None
              THEN InsertSelect(s1.db, name, TableText(cw)) ELSE Done(s1.db)
        s3 == IF copy /\ cw # None
              THEN UpdateZero(s2.db, name) ELSE Done(s2.db)
    IN  [ok |-> s1.ok /\ s2.ok /\ s3.ok, db |-> s3.db]

\* mutant: the new name is not appended to self.warehouses
add_warehouse_unlisted(warehouse_name, copy_items) ==
    LET name == replace(warehouse_name)
        q == AddWarehouseQueries(db, name, copy_items, current_warehouse)
    IN  /\ opened
        /\ Tick
        /\ call' = [name |-> "create_warehouse", warehouse_name |-> warehouse_name,
                    copy_items |-> copy_items]
        /\ ret' = None
        /\ UNCHANGED <<opened, edit_item_data>>
        /\ IF name \in Range(warehouses)
           THEN /\ error_message' = Some(NameNotUnique)
                /\ outcome' = "error"
                /\ failed' = FALSE
                /\ UNCHANGED <<db, current_warehouse, warehouses>>
           ELSE /\ db' = q.db
                /\ failed' = ~q.ok
                /\ current_warehouse' = Some(name)
                /\ outcome' = "ok"
                /\ UNCHANGED <<error_message, warehouses>>

add_warehouse(warehouse_name, copy_items) ==
    LET name == replace(warehouse_name)
        q == AddWarehouseQueries(db, name, copy_items, current_warehouse)
    IN  /\ opened
        /\ Tick
        /\ call' = [name |-> "create_warehouse", warehouse_name |-> warehouse_name,
                    copy_items |-> copy_items]
        /\ ret' = None
        /\ UNCHANGED <<opened, edit_item_data>>
        /\ IF name \in Range(warehouses)
           THEN /\ error_message' = Some(NameNotUnique)
                /\ outcome' = "error"
                /\ failed' = FALSE
                /\ UNCHANGED <<db, current_warehouse, warehouses>>
           ELSE /\ db' = q.db
                /\ failed' = ~q.ok
                /\ current_warehouse' = Some(name)
                /\ warehouses' = Append(warehouses, name)
                /\ outcome' = "ok"
                /\ UNCHANGED error_message

\* mutant: the message does not name the warehouse
NotAWarehouse_unnamed(warehouse_name) == <<"Not a warehouse">>

NotAWarehouse(warehouse_name) == warehouse_name \o <<" is not a warehouse">>

\* mutant: no return after the error is set
select_warehouse_falls_through(warehouse_name) ==
    /\ opened
    /\ Tick
    /\ call' = [name |-> "select_warehouse", warehouse_name |-> warehouse_name]
    /\ ret' = None
    /\ failed' = FALSE
    /\ UNCHANGED <<opened, db, warehouses, edit_item_data>>
    /\ current_warehouse' = Some(warehouse_name)
    /\ IF warehouse_name \notin Range(warehouses)
       THEN /\ error_message' = Some(NotAWarehouse(warehouse_name))
            /\ outcome' = "error"
       ELSE /\ outcome' = "ok"
            /\ UNCHANGED error_message

select_warehouse(warehouse_name) ==
    /\ opened
    /\ Tick
    /\ call' = [name |-> "select_warehouse", warehouse_name |-> warehouse_name]
    /\ ret' = None
    /\ failed' = FALSE
    /\ UNCHANGED <<opened, db, warehouses, edit_item_data>>
    /\ IF warehouse_name \notin Range(warehouses)
       THEN /\ error_message' = Some(NotAWarehouse(warehouse_name))
            /\ outcome' = "error"
            /\ UNCHANGED current_warehouse
       ELSE /\ current_warehouse' = Some(warehouse_name)
            /\ outcome' = "ok"
            /\ UNCHANGED error_message

delete_warehouse ==
    /\ opened
    /\ Tick
    /\ call' = [name |-> "delete_current_warehouse"]
    /\ ret' = None
    /\ outcome' = "ok"
    /\ UNCHANGED <<opened, error_message, edit_item_data>>
    /\ IF current_warehouse = None
       THEN /\ failed' = FALSE
            /\ UNCHANGED <<db, current_warehouse, warehouses>>
       ELSE LET q == DropTable(db, TableText(current_warehouse))
            IN  /\ warehouses' = Remove(warehouses, Val(current_warehouse))
                /\ db' = q.db
                /\ failed' = ~q.ok
                /\ current_warehouse' = None

----------------------------------------------------------------------------
(* Item methods *)

\* id_exists: the count query; when it fails __execute_read_query returns
\* None and subscripting None raises TypeError
id_exists(d, cw, text) ==
    LET q == SelectCount(d, TableText(cw), text)
    IN  [raised |-> ~q.ok,
         result |-> IF q.ok THEN Val(q.result) # 0 ELSE FALSE]

NoWarehouse == <<"Add or select a warehouse to add an item">>
QuantityNotInt == <<"'Quantity' must be an interger">>

add_item(name, quantity, other) ==
    /\ opened
    /\ Tick
    /\ call' = [name |-> "add_item", item_name |-> name, quantity |-> quantity,
                other |-> other]
    /\ ret' = None
    /\ UNCHANGED <<opened, current_warehouse, warehouses, edit_item_data>>
    /\ IF current_warehouse = None
       THEN /\ error_message' = Some(NoWarehouse)
            /\ outcome' = "error"
            /\ failed' = FALSE
            /\ UNCHANGED db
       ELSE IF ~IsInt(quantity)
       THEN /\ error_message' = Some(QuantityNotInt)
            /\ outcome' = "error"
            /\ failed' = FALSE
            /\ UNCHANGED db
       ELSE LET t == TableText(current_warehouse)
                q == InsertItem(db, t, name, int(quantity), other)
            IN  /\ TableExists(db, t) => NextId(db, t) <= MaxId
                /\ db' = q.db
                /\ failed' = ~q.ok
                /\ outcome' = "ok"
                /\ UNCHANGED error_message

QuantityAndIdNotInt == <<"'Quantity' and ID must be an intergers.">>
IdDoesNotExistBang == <<"Item ID does not exist!">>

edit_quantity(id, quantity) ==
    /\ opened
    /\ Tick
    /\ call' = [name |-> "adjust_quantity", id |-> id, quantity |-> quantity]
    /\ ret' = None
    /\ UNCHANGED <<opened, current_warehouse, warehouses, edit_item_data>>
    /\ IF ~(IsInt(id) /\ IsInt(quantity))
       THEN /\ error_message' = Some(QuantityAndIdNotInt)
            /\ outcome' = "error"
            /\ failed' = FALSE
            /\ UNCHANGED db
       ELSE LET e == id_exists(db, current_warehouse, Str(int(id)))
                t == TableText(current_warehouse)
                q == UpdateQuantity(db, t, int(id), int(quantity))
            IN  IF e.raised
                THEN /\ outcome' = "raised"
                     /\ failed' = TRUE
                     /\ UNCHANGED <<db, error_message>>
                ELSE IF ~e.result
                THEN /\ error_message' = Some(IdDoesNotExistBang)
                     /\ outcome' = "error"
                     /\ failed' = FALSE
                     /\ UNCHANGED db
                ELSE /\ \A r \in q.db.rows[t] :
                            r.quantity \in (0 - MaxQty)..MaxQty
                     /\ db' = q.db
                     /\ failed' = ~q.ok
                     /\ outcome' = "ok"
                     /\ UNCHANGED error_message

IdDoesNotExist == <<"Item ID does not exist">>

\* mutant: a failed request also drops the staged item
edit_item_unstages(id) ==
    LET e == id_exists(db, current_warehouse, id)
        data == Val(SelectWhere(db, TableText(current_warehouse), id).result)[1]
    IN  /\ opened
        /\ Tick
        /\ call' = [name |-> "request_edit", id |-> id]
        /\ ret' = None
        /\ UNCHANGED <<opened, db, current_warehouse, warehouses>>
        /\ IF e.raised
           THEN /\ outcome' = "raised"
                /\ failed' = TRUE
                /\ UNCHANGED <<error_message, edit_item_data>>
           ELSE IF ~e.result
           THEN /\ error_message' = Some(IdDoesNotExist)
                /\ outcome' = "error"
                /\ failed' = FALSE
                /\ edit_item_data' = None
           ELSE /\ edit_item_data' = Some([name |-> data.name, id |-> data.id,
                                           quantity |-> data.quantity,
                                           other |-> data.other])
                /\ outcome' = "ok"
                /\ failed' = FALSE
                /\ UNCHANGED error_message

edit_item(id) ==
    LET e == id_exists(db, current_warehouse, id)
        data == Val(SelectWhere(db, TableText(current_warehouse), id).result)[1]
    IN  /\ opened
        /\ Tick
        /\ call' = [name |-> "request_edit", id |-> id]
        /\ ret' = None
        /\ UNCHANGED <<opened, db, current_warehouse, warehouses>>
        /\ IF e.raised
           THEN /\ outcome' = "raised"
                /\ failed' = TRUE
                /\ UNCHANGED <<error_message, edit_item_data>>
           ELSE IF ~e.result
           THEN /\ error_message' = Some(IdDoesNotExist)
                /\ outcome' = "error"
                /\ failed' = FALSE
                /\ UNCHANGED edit_item_data
           ELSE /\ edit_item_data' = Some([name |-> data.name, id |-> data.id,
                                           quantity |-> data.quantity,
                                           other |-> data.other])
                /\ outcome' = "ok"
                /\ failed' = FALSE
                /\ UNCHANGED error_message

QuantityNotIntDot == <<"'Quantity' must be an interger.">>
IdsNotInt == <<"IDs must be integers.">>
IdsNotUnique == <<"IDs must be unique.">>

\* the uniqueness test of save_edit: id != old_id and self.id_exists(id)
\* (Python's "and" does not evaluate id_exists when the ids are equal)
IdTaken(d, cw, id, old_id) ==
    IF id = old_id THEN [raised |-> FALSE, result |-> FALSE]
    ELSE id_exists(d, cw, Str(id))

save_edit(name, id, quantity, other, old_id) ==
    /\ opened
    /\ Tick
    /\ call' = [name |-> "apply_edit", item_name |-> name, id |-> id,
                quantity |-> quantity, other |-> other, old_id |-> old_id]
    /\ ret' = None
    /\ UNCHANGED <<opened, current_warehouse, warehouses, edit_item_data>>
    /\ IF ~IsInt(quantity)
       THEN /\ error_message' = Some(QuantityNotIntDot)
            /\ outcome' = "error"
            /\ failed' = FALSE
            /\ UNCHANGED db
       ELSE IF ~(IsInt(id) /\ IsInt(old_id))
       THEN /\ error_message' = Some(IdsNotInt)
            /\ outcome' = "error"
            /\ failed' = FALSE
            /\ UNCHANGED db
       ELSE LET e == IdTaken(db, current_warehouse, int(id), int(old_id))
                q == UpdateItem(db, TableText(current_warehouse), name, int(id),
                                int(quantity), other, int(old_id))
            IN  IF e.raised
                THEN /\ outcome' = "raised"
                     /\ failed' = TRUE
                     /\ UNCHANGED <<db, error_message>>
                ELSE IF e.result
                THEN /\ error_message' = Some(IdsNotUnique)
                     /\ outcome' = "error"
                     /\ failed' = FALSE
                     /\ UNCHANGED db
                ELSE /\ db' = q.db
                     /\ failed' = ~q.ok
                     /\ outcome' = "ok"
                     /\ UNCHANGED error_message

delete_item(id) ==
    LET q == DeleteWhere(db, TableText(current_warehouse), id)
    IN  /\ opened
        /\ Tick
        /\ call' = [name |-> "delete_item", id |-> id]
        /\ ret' = None
        /\ db' = q.db
        /\ failed' = ~q.ok
        /\ outcome' = "ok"
        /\ UNCHANGED <<opened, current_warehouse, warehouses, error_message,
                       edit_item_data>>

----------------------------------------------------------------------------

Next ==
    \/ Open
    \/ get_warehouse_data
    \/ \E n \in WarehouseNames, c \in BOOLEAN : add_warehouse(n, c)
    \/ \E n \in WarehouseNames : select_warehouse(n)
    \/ delete_warehouse
    \/ \E i \in ItemInputs, q \in QtyStrs : add_item(i.name, q, i.other)
    \/ \E i \in IdStrs, q \in DeltaStrs : edit_quantity(i, q)
    \/ \E i \in IdStrs : edit_item(i)
    \/ \E e \in EditInputs : save_edit(e.name, e.id, e.quantity, e.other, e.old_id)
    \/ \E i \in IdStrs : delete_item(i)

Spec == Init /\ [][Next]_vars

----------------------------------------------------------------------------
(* Properties *)

A == <<"A">>
A_B == <<"A", "_", "B">>
A_space_B == <<"A", " ", "B">>

ValidatingCalls == {"create_warehouse", "select_warehouse", "add_item",
                    "adjust_quantity", "request_edit", "apply_edit"}

\* C1: a call of create_warehouse, select_warehouse, add_item,
\* adjust_quantity, request_edit or apply_edit that ends with pending_error
\* set by it leaves current_warehouse, known_warehouses, the database and
\* pending_edit_payload exactly as they were.
C1_FailedCallChangesOnlyError ==
    [][(call'.name \in ValidatingCalls /\ outcome' = "error")
          => /\ error_message' # None
             /\ current_warehouse' = current_warehouse
             /\ warehouses' = warehouses
             /\ db' = db
             /\ edit_item_data' = edit_item_data]_vars

\* a request_edit that failed while an item was staged and a warehouse
\* with items was selected
C1_Witness ==
    /\ call.name = "request_edit"
    /\ outcome = "error"
    /\ edit_item_data # None
    /\ current_warehouse # None
    /\ TableExists(db, Val(current_warehouse))
    /\ db.rows[Val(current_warehouse)] # {}

TotalCalls == {"get_snapshot", "add_item", "adjust_quantity", "request_edit",
               "apply_edit", "delete_item"}

\* C2: every call of get_snapshot, add_item, adjust_quantity, request_edit,
\* apply_edit and delete_item returns normally, in every state, the state
\* with no warehouse selected included: none ends in a raised exception.
C2_NoCallRaises ==
    call.name \in TotalCalls => outcome # "raised"

\* C3: get_snapshot returns the pending_error and pending_edit_payload held
\* just before the call and leaves both empty; no other call empties
\* either; a get_snapshot right after a get_snapshot returns both as none.
C3_SnapshotTakesTransients ==
    [][/\ call'.name = "get_snapshot"
          => /\ ret' # None
             /\ Val(ret').error_message = error_message
             /\ Val(ret').edit_item_data = edit_item_data
             /\ error_message' = None
             /\ edit_item_data' = None
             /\ call.name = "get_snapshot"
                   => /\ Val(ret').error_message = None
                      /\ Val(ret').edit_item_data = None
       /\ call'.name # "get_snapshot"
          => /\ error_message # None => error_message' # None
             /\ edit_item_data # None => edit_item_data' # None]_vars

\* a get_snapshot that returned both an error and a staged item
C3_Witness ==
    /\ call.name = "get_snapshot"
    /\ Val(ret).error_message # None
    /\ Val(ret).edit_item_data # None
    /\ error_message = None
    /\ edit_item_data = None

\* C4: current_warehouse is none or a member of known_warehouses.
C4_CurrentIsKnown ==
    current_warehouse = None \/ Val(current_warehouse) \in Range(warehouses)

\* a warehouse is selected after a select_warehouse that was refused
C4_Witness ==
    /\ call.name = "select_warehouse"
    /\ outcome = "error"
    /\ current_warehouse # None
    /\ Len(warehouses) >= 2

UniqueIds(d) ==
    \A t \in DOMAIN d.rows : Cardinality(Ids(d.rows[t])) = Cardinality(d.rows[t])

\* apply_edit was called with integers, an id other than old_id, and an
\* item of the current warehouse already has that id
TakesUsedId(c, d, cw) ==
    /\ c.name = "apply_edit"
    /\ IsInt(c.quantity) /\ IsInt(c.id) /\ IsInt(c.old_id)
    /\ int(c.id) # int(c.old_id)
    /\ cw # None
    /\ TableExists(d, Val(cw))
    /\ int(c.id) \in Ids(d.rows[Val(cw)])

\* C5: no two items of one warehouse have the same id, in every state; an
\* apply_edit that would give an item an id already in use is refused and
\* the items stay as they were.
C5_ItemIdsUnique ==
    /\ []UniqueIds(db)
    /\ [][TakesUsedId(call', db, current_warehouse)
             => outcome' = "error" /\ db' = db]_vars

\* an apply_edit that asked for the id of another item of the current
\* warehouse was refused
C5_Witness ==
    /\ TakesUsedId(call, db, current_warehouse)
    /\ int(call.old_id) \in Ids(db.rows[Val(current_warehouse)])
    /\ outcome = "error"
    /\ error_message = Some(<<"IDs must be unique.">>)

\* the name with every space replaced by an underscore
Underscored(n) == [i \in 1..Len(n) |-> IF n[i] = " " THEN "_" ELSE n[i]]

\* C6: create_warehouse with a name that, spaces replaced by underscores,
\* is already known sets pending_error to "Warehouse Name must be unique"
\* and changes nothing else.
C6_DuplicateNameRefused ==
    [][(/\ call'.name = "create_warehouse"
        /\ Underscored(call'.warehouse_name) \in Range(warehouses))
          => /\ error_message' = Some(<<"Warehouse Name must be unique">>)
             /\ warehouses' = warehouses
             /\ current_warehouse' = current_warehouse
             /\ db' = db
             /\ edit_item_data' = edit_item_data]_vars

\* "A B" was refused while A_B is known and another warehouse is selected
C6_Witness ==
    /\ call.name = "create_warehouse"
    /\ call.warehouse_name = A_space_B
    /\ outcome = "error"
    /\ A_B \in Range(warehouses)
    /\ A_space_B \notin Range(warehouses)
    /\ current_warehouse = Some(A)

\* C7: a create_warehouse with copying, made with warehouse W selected and
\* with no statement failing, gives the new warehouse the items of W with
\* quantity 0 (as many as W has), leaves the items of W as they were, makes
\* the new warehouse current and appends its name to known_warehouses.
C7_CopyResetsQuantities ==
    [][(/\ call'.name = "create_warehouse"
        /\ call'.copy_items
        /\ outcome' = "ok"
        /\ ~failed'
        /\ current_warehouse # None)
          => LET W == Val(current_warehouse)
                 N == Underscored(call'.warehouse_name)
             IN  /\ db'.rows[N] = {[r EXCEPT !.quantity = 0] : r \in db.rows[W]}
                 /\ Cardinality(db'.rows[N]) = Cardinality(db.rows[W])
                 /\ db'.rows[W] = db.rows[W]
                 /\ current_warehouse' = Some(N)
                 /\ warehouses' = Append(warehouses, N)]_vars

\* a copy of a warehouse with two items, one of them with a quantity that
\* is not 0
C7_Witness ==
    /\ call.name = "create_warehouse"
    /\ call.copy_items
    /\ ~failed
    /\ outcome = "ok"
    /\ Cardinality(db.rows[Val(current_warehouse)]) = 2
    /\ \E t \in DOMAIN db.rows \ {Val(current_warehouse)} :
          /\ Ids(db.rows[t]) = Ids(db.rows[Val(current_warehouse)])
          /\ \E r \in db.rows[t] : r.quantity # 0

\* C8: select_warehouse(name) with an unknown name sets pending_error to
\* "<name> is not a warehouse" and leaves current_warehouse unchanged; with
\* a known name it makes it current and sets no error; known_warehouses
\* and the items are unchanged in both cases.
C8_SelectWarehouse ==
    [][call'.name = "select_warehouse"
          => /\ warehouses' = warehouses
             /\ db' = db
             /\ IF call'.warehouse_name \in Range(warehouses)
                THEN /\ current_warehouse' = Some(call'.warehouse_name)
                     /\ error_message' = error_message
                     /\ outcome' = "ok"
                ELSE /\ current_warehouse' = current_warehouse
                     /\ error_message' =
                           Some(call'.warehouse_name \o <<" is not a warehouse">>)]_vars

\* an unknown name was refused while a warehouse with items was selected
C8_Witness ==
    /\ call.name = "select_warehouse"
    /\ current_warehouse # None
    /\ call.warehouse_name \notin Range(warehouses)
    /\ error_message = Some(call.warehouse_name \o <<" is not a warehouse">>)
    /\ TableExists(db, Val(current_warehouse))
    /\ db.rows[Val(current_warehouse)] # {}

\* a create_warehouse that registered the name it was given
Created(c, o) == c.name = "create_warehouse" /\ o = "ok"

\* C9 as stated: for every name not yet known, a successful create_warehouse
\* followed by select_warehouse with the same argument leaves
\* current_warehouse the warehouse just created and the next get_snapshot
\* reports no pending_error.
C9_RoundTripAnyName ==
    [][(/\ Created(call, outcome)
        /\ call'.name = "select_warehouse"
        /\ call'.warehouse_name = call.warehouse_name)
          => /\ current_warehouse' = current_warehouse
             /\ error_message' = None]_vars

\* C9 amended: for every name not yet known that contains no space, a
\* successful create_warehouse followed by select_warehouse with the same
\* argument leaves current_warehouse the warehouse just created, named by
\* that argument, and sets no pending_error: the next get_snapshot reports
\* the pending_error held before the select_warehouse, none if none was held.
C9_RoundTripUnspacedName ==
    [][(/\ Created(call, outcome)
        /\ call'.name = "select_warehouse"
        /\ call'.warehouse_name = call.warehouse_name
        /\ \A i \in 1..Len(call.warehouse_name) : call.warehouse_name[i] # " ")
          => /\ current_warehouse' = current_warehouse
             /\ current_warehouse' = Some(call'.warehouse_name)
             /\ outcome' = "ok"
             /\ error_message' = error_message]_vars

\* select_warehouse("A_B") right after create_warehouse("A_B", _)
C9_Witness ==
    /\ call.name = "select_warehouse"
    /\ call.warehouse_name = A_B
    /\ outcome = "ok"
    /\ current_warehouse = Some(A_B)
    /\ warehouses[Len(warehouses)] = A_B
    /\ ncalls = 3

CurrentItems(d, cw) ==
    IF cw # None /\ Val(cw) \in DOMAIN d.rows THEN d.rows[Val(cw)] ELSE {}

\* C11 as stated: add_item with no warehouse selected, or with a quantity
\* that is not an integer, sets pending_error and writes nothing; otherwise
\* it adds exactly one item to the current warehouse, with the given name,
\* the parsed quantity, the given other and an id no item of that warehouse
\* had, and leaves the items that were there unchanged.
C11_AddItemAddsOne ==
    [][call'.name = "add_item"
          => IF current_warehouse = None \/ ~IsInt(call'.quantity)
             THEN outcome' = "error" /\ error_message' # None /\ db' = db
             ELSE LET W == Val(current_warehouse)
                  IN  /\ W \in DOMAIN db.rows
                      /\ W \in DOMAIN db'.rows
                      /\ db.rows[W] \subseteq db'.rows[W]
                      /\ Cardinality(db'.rows[W]) = Cardinality(db.rows[W]) + 1
                      /\ \A r \in db'.rows[W] \ db.rows[W] :
                            /\ r.name = call'.item_name
                            /\ r.quantity = int(call'.quantity)
                            /\ r.other = call'.other
                            /\ r.id \notin Ids(db.rows[W])]_vars

\* C12 as stated: adjust_quantity with two integers and an id present in
\* the current warehouse adds delta to the quantity of that item and changes
\* nothing else; with an id that is not present it sets pending_error to
\* "Item ID does not exist!" and changes no quantity.
C12_AdjustQuantity ==
    [][(/\ call'.name = "adjust_quantity"
        /\ IsInt(call'.id) /\ IsInt(call'.quantity))
          => IF int(call'.id) \in Ids(CurrentItems(db, current_warehouse))
             THEN /\ outcome' = "ok"
                  /\ db'.rows[Val(current_warehouse)] =
                        {IF r.id = int(call'.id)
                         THEN [r EXCEPT !.quantity = @ + int(call'.quantity)]
                         ELSE r : r \in db.rows[Val(current_warehouse)]}
             ELSE /\ error_message' = Some(<<"Item ID does not exist!">>)
                  /\ db' = db]_vars

\* the edited row: the given name, id, quantity and other
Edited(c) == [name |-> c.item_name, id |-> int(c.id),
              quantity |-> int(c.quantity), other |-> c.other]

\* apply_edit was called with three integers
EditWithInts(c) ==
    /\ c.name = "apply_edit"
    /\ IsInt(c.quantity) /\ IsInt(c.id) /\ IsInt(c.old_id)

\* C13 as stated: apply_edit with integers: when id differs from old_id and an item
\* of the current warehouse has that id, pending_error becomes "IDs must be
\* unique." and no item changes; when id equals old_id the call is never
\* refused; when the call is accepted the item at old_id gets exactly the
\* given name, id, quantity and other and no other item changes.
C13_ApplyEdit ==
    [][EditWithInts(call')
          => /\ TakesUsedId(call', db, current_warehouse)
                   => /\ error_message' = Some(<<"IDs must be unique.">>)
                      /\ outcome' = "error"
                      /\ db' = db
             /\ int(call'.id) = int(call'.old_id)
                   => /\ outcome' = "ok"
                      /\ error_message' = error_message
             /\ outcome' = "ok"
                   => /\ DOMAIN db'.rows = DOMAIN db.rows
                      /\ \A t \in DOMAIN db.rows :
                            db'.rows[t] =
                               IF current_warehouse # None /\ t = Val(current_warehouse)
                               THEN {IF r.id = int(call'.old_id)
                                     THEN Edited(call') ELSE r : r \in db.rows[t]}
                               ELSE db.rows[t]]_vars

\* the text names an item of the current warehouse
NamesItem(text, d, cw) ==
    IsInt(text) /\ int(text) \in Ids(CurrentItems(d, cw))

\* C14 as stated: request_edit with a text that names no item of the current
\* warehouse (a text that is not an integer included) sets pending_error to
\* "Item ID does not exist" and stages nothing; otherwise it stages the
\* name, id, quantity and other of that item; it changes no item, no
\* warehouse and not current_warehouse.
C14_RequestEdit ==
    [][call'.name = "request_edit"
          => /\ db' = db
             /\ warehouses' = warehouses
             /\ current_warehouse' = current_warehouse
             /\ IF NamesItem(call'.id, db, current_warehouse)
                THEN /\ edit_item_data' # None
                     /\ Val(edit_item_data') \in CurrentItems(db, current_warehouse)
                     /\ Val(edit_item_data').id = int(call'.id)
                ELSE /\ error_message' = Some(<<"Item ID does not exist">>)
                     /\ edit_item_data' = edit_item_data]_vars

\* C15 as stated: delete_item removes the item with that id from the current
\* warehouse and no other item; when no item of the current warehouse has
\* that id it sets no pending_error and changes neither the session state
\* nor any item.
C15_DeleteItem ==
    [][call'.name = "delete_item"
          => /\ error_message' = error_message
             /\ edit_item_data' = edit_item_data
             /\ current_warehouse' = current_warehouse
             /\ warehouses' = warehouses
             /\ outcome' = "ok"
             /\ IF NamesItem(call'.id, db, current_warehouse)
                THEN /\ DOMAIN db'.rows = DOMAIN db.rows
                     /\ \A t \in DOMAIN db.rows :
                           db'.rows[t] =
                              IF t = Val(current_warehouse)
                              THEN {r \in db.rows[t] : r.id # int(call'.id)}
                              ELSE db.rows[t]
                ELSE db' = db]_vars

\* C16 as stated: open succeeds on every store, a new one with no warehouse
\* and no bookkeeping table included, and leaves current_warehouse none,
\* both transient fields empty and known_warehouses the warehouse tables of
\* the store.
C16_OpenSucceeds ==
    call.name = "open"
       => /\ outcome = "ok"
          /\ opened
          /\ current_warehouse = None
          /\ error_message = None
          /\ edit_item_data = None
          /\ warehouses = db.tables

\* C17 as stated: a text that is not an integer sets pending_error to
\* "'Quantity' must be an integer" in add_item, "'Quantity' and ID must be
\* an integers." in adjust_quantity, "'Quantity' must be an integer." in
\* apply_edit for the quantity and, the quantity being an integer, "IDs
\* must be integers." for id or old_id.
C17_ParseMessages ==
    [][/\ (/\ call'.name = "add_item"
           /\ current_warehouse # None
           /\ ~IsInt(call'.quantity))
          => error_message' = Some(<<"'Quantity' must be an integer">>)
       /\ (/\ call'.name = "adjust_quantity"
           /\ ~(IsInt(call'.id) /\ IsInt(call'.quantity)))
          => error_message' = Some(<<"'Quantity' and ID must be an integers.">>)
       /\ (call'.name = "apply_edit" /\ ~IsInt(call'.quantity))
          => error_message' = Some(<<"'Quantity' must be an integer.">>)
       /\ (/\ call'.name = "apply_edit"
           /\ IsInt(call'.quantity)
           /\ ~(IsInt(call'.id) /\ IsInt(call'.old_id)))
          => error_message' = Some(<<"IDs must be integers.">>)]_vars

MutatingCalls == {"create_warehouse", "delete_current_warehouse", "add_item",
                  "adjust_quantity", "apply_edit", "delete_item"}

\* C18 as stated: when a statement issued by a mutating call fails,
\* current_warehouse, known_warehouses and the store are after the call
\* what they were before it.
C18_AllOrNothing ==
    [][(call'.name \in MutatingCalls /\ failed')
          => /\ current_warehouse' = current_warehouse
             /\ warehouses' = warehouses
             /\ db' = db]_vars

ItemCalls == {"add_item", "adjust_quantity", "request_edit", "apply_edit",
              "delete_item"}

\* C19 as stated: add_item, adjust_quantity, request_edit, apply_edit and delete_item
\* change neither current_warehouse nor known_warehouses nor the items of a
\* warehouse other than the current one, and create or drop no warehouse.
C19_ItemCallsStayInCurrent ==
    [][call'.name \in ItemCalls
          => /\ current_warehouse' = current_warehouse
             /\ warehouses' = warehouses
             /\ db'.tables = db.tables
             /\ DOMAIN db'.rows = DOMAIN db.rows
             /\ \A t \in DOMAIN db.rows :
                   (current_warehouse = None \/ t # Val(current_warehouse))
                      => db'.rows[t] = db.rows[t]]_vars

\* C20 as stated: apply_edit with integers, an old_id that no item of the current
\* warehouse has and an id that no item has either changes no item, creates
\* none and sets no pending_error; apply_edit and adjust_quantity never
\* change the number of items of a warehouse.
C20_EditOfAbsentItem ==
    [][/\ (/\ EditWithInts(call')
           /\ int(call'.old_id) \notin Ids(CurrentItems(db, current_warehouse))
           /\ int(call'.id) \notin Ids(CurrentItems(db, current_warehouse)))
          => db' = db /\ error_message' = error_message
       /\ call'.name \in {"apply_edit", "adjust_quantity"}
          => /\ DOMAIN db'.rows = DOMAIN db.rows
             /\ \A t \in DOMAIN db.rows :
                   Cardinality(db'.rows[t]) = Cardinality(db.rows[t])]_vars

====
